---- MODULE Spec2Model ----
(***************************************************************************)
(* The OpenBSD process controller of edb (DebuggerCore.cpp): the           *)
(* controller's fields pid_, active_thread_ and threads_, one action per   *)
(* public operation, and the operating system as the nondeterministic      *)
(* source of fork/ptrace/waitpid results.  Every operation records what it *)
(* did (the calls it made to the OS and to the breakpoint registry, the    *)
(* signals it sent, its result) so that its contract can be stated.        *)
(***************************************************************************)
EXTENDS Integers, Sequences, FiniteSets

VARIABLES
    pid_,            \* DebuggerCoreBase::pid_, 0 when detached
    active_thread_,  \* DebuggerCore::active_thread_
    threads_,        \* DebuggerCore::threads_: tid -> thread_info
    running,         \* OS side: the traced threads the OS lets run
    op,              \* the operation that ran last
    arg,             \* its argument
    ret,             \* its result
    event,           \* what it assigned to the caller's DebugEvent, NoEvent if nothing
    log,             \* its calls to the OS and to collaborators, in order
    sigs,            \* tid -> number of SIGSTOPs it sent with ::kill
    osres,           \* what the OS answered
    rg,              \* register round trip: the debuggee's register bank and the caller's State
    ov,              \* Analyzer: a function map before and after fix_overlaps
    ca               \* Analyzer: regions' bytes, analysis_info_ and what the last analyze did

vars == <<pid_, active_thread_, threads_, running, op, arg, ret, event, log, sigs, osres, rg, ov, ca>>

(***************************************************************************)
(* Bounds and platform numbers                                             *)
(***************************************************************************)
MaxTid == 2
MaxReg == 1
MaxAddress == 3

SIGTRAP == 5
SIGSTOP == 17

Tids == 1..MaxTid
Pids == Tids
\* Sample addresses and words; what the debuggee's memory holds is the OS's answer
Addrs == {0, 8}
Words == {0, 1}

(***************************************************************************)
(* <sys/wait.h> as used by the controller                                  *)
(***************************************************************************)
W_STATUS(x) == x % 128
WIFEXITED(x) == W_STATUS(x) = 0
WIFSTOPPED(x) == (x % 256) = 127
WIFSIGNALED(x) == W_STATUS(x) # 127 /\ W_STATUS(x) # 0
WSTOPSIG(x) == (x \div 256) % 256
WTERMSIG(x) == W_STATUS(x)

WEXITSTATUS(x) == (x \div 256) % 256

StatusExited(code) == code * 256
StatusSignaled(sig) == sig
StatusStopped(sig) == sig * 256 + 127

\* exit(0), killed by signal 9, stopped by SIGTRAP, stopped by SIGSTOP
Statuses == {StatusExited(0), StatusSignaled(9), StatusStopped(SIGTRAP), StatusStopped(SIGSTOP)}

Dispositions == {"DEBUG_STOP", "DEBUG_CONTINUE", "DEBUG_EXCEPTION_NOT_HANDLED"}

(***************************************************************************)
(* Helpers of the controller                                               *)
(***************************************************************************)
resume_code(status) ==
    IF WIFSIGNALED(status) THEN WTERMSIG(status)
    ELSE IF WIFSTOPPED(status) THEN WSTOPSIG(status)
    ELSE 0

EmptyMap == [t \in {} |-> 0]
NoEvent == [status |-> -1, pid |-> 0, tid |-> 0]
NoSigs == [t \in Tids |-> 0]

thread_info == [status |-> 0]

DebugEvent(status, pid, tid) == [status |-> status, pid |-> pid, tid |-> tid]

attached(c) == c.pid_ # 0

\* QMap/QHash operator[]: a missing key is inserted with a default value
Subscript(m, tid) == IF tid \in DOMAIN m THEN m ELSE [t \in DOMAIN m \cup {tid} |-> IF t = tid THEN thread_info ELSE m[t]]

\* threads_[tid].status = status
StoreStatus(m, tid, status) == [t \in DOMAIN m \cup {tid} |-> IF t = tid THEN [status |-> status] ELSE m[t]]

\* threads_.insert(pid, thread_info())
Insert(m, tid) == [t \in DOMAIN m \cup {tid} |-> IF t = tid THEN thread_info ELSE m[t]]

\* One call to the OS or to a collaborator: <<what, request, target, address, data>>
Ptrace(req, target, addr, data) == <<"ptrace", req, target, addr, data>>
ClearBreakpoints == <<"clear_breakpoints", "", 0, 0, 0>>
Fork(child) == <<"fork", "", child, 0, 0>>
Waitpid(target) == <<"waitpid", "", target, 0, 0>>
WaitpidTimeout(target) == <<"waitpid_timeout", "", target, 0, 0>>

\* SET_OK(ok, v): a result of -1 is an error unless errno stayed 0
SET_OK(v, errno) == v # -1 \/ errno = 0

Ctl == [pid_ |-> pid_, active_thread_ |-> active_thread_, threads_ |-> threads_, running |-> running]

Out(c, l, r) == [c |-> c, log |-> l, ret |-> r, sigs |-> NoSigs, event |-> NoEvent]

(***************************************************************************)
(* The operations, each from the controller before the call and the OS's   *)
(* answers to the controller after it and what the call did                *)
(***************************************************************************)
\* detach that forgets threads_.clear()
detach_keep_threads(c) ==
    IF c.pid_ # 0
    THEN [c |-> [c EXCEPT !.pid_ = 0, !.running = {}],
          log |-> <<ClearBreakpoints, Ptrace("PT_DETACH", c.pid_, 0, 0)>>,
          ret |-> TRUE, sigs |-> NoSigs, event |-> NoEvent]
    ELSE [c |-> c, log |-> <<>>, ret |-> TRUE, sigs |-> NoSigs, event |-> NoEvent]

detach(c) ==
    IF attached(c)
    THEN Out([c EXCEPT !.pid_ = 0, !.threads_ = EmptyMap, !.running = {}],
             <<ClearBreakpoints, Ptrace("PT_DETACH", c.pid_, 0, 0)>>, TRUE)
    ELSE Out(c, <<>>, TRUE)

\* kill that resets pid_ before it issues the request and the wait
kill_reset_first(c) ==
    IF attached(c)
    THEN Out([c EXCEPT !.pid_ = 0, !.threads_ = EmptyMap, !.running = {}],
             <<ClearBreakpoints, Ptrace("PT_KILL", 0, 0, 0), Waitpid(0)>>, TRUE)
    ELSE Out(c, <<>>, TRUE)

kill(c) ==
    IF attached(c)
    THEN Out([c EXCEPT !.pid_ = 0, !.threads_ = EmptyMap, !.running = {}],
             <<ClearBreakpoints, Ptrace("PT_KILL", c.pid_, 0, 0), Waitpid(c.pid_)>>, TRUE)
    ELSE Out(c, <<>>, TRUE)

\* attach that does not detach first
attach_no_detach(c, pid, r) ==
    IF r = 0
    THEN Out([c EXCEPT !.pid_ = pid, !.active_thread_ = pid,
                       !.threads_ = Insert(EmptyMap, pid),
                       !.running = c.running \cup {pid}],
             <<Ptrace("PT_ATTACH", pid, 0, 0)>>, TRUE)
    ELSE Out(c, <<Ptrace("PT_ATTACH", pid, 0, 0)>>, FALSE)

\* attach that forgets threads_.insert(pid, thread_info())
attach_no_insert(c, pid, r) ==
    LET d == detach(c) IN
    IF r = 0
    THEN Out([d.c EXCEPT !.pid_ = pid, !.active_thread_ = pid,
                         !.threads_ = EmptyMap,
                         !.running = d.c.running \cup {pid}],
             d.log \o <<Ptrace("PT_ATTACH", pid, 0, 0)>>, TRUE)
    ELSE Out(d.c, d.log \o <<Ptrace("PT_ATTACH", pid, 0, 0)>>, FALSE)

attach(c, pid, r) ==
    LET d == detach(c) IN
    IF r = 0
    THEN Out([d.c EXCEPT !.pid_ = pid, !.active_thread_ = pid,
                         !.threads_ = Insert(EmptyMap, pid),
                         !.running = d.c.running \cup {pid}],
             d.log \o <<Ptrace("PT_ATTACH", pid, 0, 0)>>, TRUE)
    ELSE Out(d.c, d.log \o <<Ptrace("PT_ATTACH", pid, 0, 0)>>, FALSE)

\* open that accepts any stop as the first event
open_any_stop(c, fk, w, status) ==
    LET d == detach(c) IN
    IF fk = -1
    THEN Out([d.c EXCEPT !.pid_ = 0], d.log \o <<Fork(fk)>>, FALSE)
    ELSE LET c1 == [d.c EXCEPT !.threads_ = EmptyMap]
             l1 == d.log \o <<Fork(fk), Waitpid(fk)>>
         IN  IF w = -1
             THEN Out(c1, l1, FALSE)
             ELSE IF ~WIFSTOPPED(status)
             THEN LET d2 == detach(c1) IN Out(d2.c, l1 \o d2.log, FALSE)
             ELSE Out([c1 EXCEPT !.threads_ = StoreStatus(Insert(c1.threads_, fk), fk, status),
                                 !.pid_ = fk,
                                 !.active_thread_ = fk],
                      l1, TRUE)

\* open that does not detach first
open_no_detach(c, fk, w, status) ==
    IF fk = -1
    THEN Out([c EXCEPT !.pid_ = 0], <<Fork(fk)>>, FALSE)
    ELSE LET c1 == [c EXCEPT !.threads_ = EmptyMap]
             l1 == <<Fork(fk), Waitpid(fk)>>
         IN  IF w = -1
             THEN Out(c1, l1, FALSE)
             ELSE IF ~WIFSTOPPED(status) \/ WSTOPSIG(status) # SIGTRAP
             THEN LET d2 == detach(c1) IN Out(d2.c, l1 \o d2.log, FALSE)
             ELSE Out([c1 EXCEPT !.threads_ = StoreStatus(Insert(c1.threads_, fk), fk, status),
                                 !.pid_ = fk,
                                 !.active_thread_ = fk],
                      l1, TRUE)

\* fk: what fork returned to the parent; w: what the blocking waitpid
\* returned; status: the raw status it stored
open(c, fk, w, status) ==
    LET d == detach(c) IN
    IF fk = -1
    THEN Out([d.c EXCEPT !.pid_ = 0], d.log \o <<Fork(fk)>>, FALSE)
    ELSE LET c1 == [d.c EXCEPT !.threads_ = EmptyMap]
             l1 == d.log \o <<Fork(fk), Waitpid(fk)>>
         IN  IF w = -1
             THEN Out(c1, l1, FALSE)
             ELSE IF ~WIFSTOPPED(status) \/ WSTOPSIG(status) # SIGTRAP
             THEN LET d2 == detach(c1) IN Out(d2.c, l1 \o d2.log, FALSE)
             ELSE Out([c1 EXCEPT !.threads_ = StoreStatus(Insert(c1.threads_, fk), fk, status),
                                 !.pid_ = fk,
                                 !.active_thread_ = fk],
                      l1, TRUE)

\* wait_debug_event that stores the status in the principal thread's entry
\* wait_debug_event that gives the process up when its principal thread
\* is reported as terminated
wait_detach_on_exit(c, timeout, tid, status) ==
    IF attached(c)
    THEN IF ~timeout /\ tid > 0
         THEN LET ev == DebugEvent(status, c.pid_, tid)
                  gone == tid = c.pid_ /\ (WIFEXITED(status) \/ WIFSIGNALED(status))
              IN
              [c |-> [c EXCEPT !.pid_ = IF gone THEN 0 ELSE c.pid_,
                               !.active_thread_ = ev.tid,
                               !.threads_ = StoreStatus(c.threads_, tid, status),
                               !.running = c.running \ {tid}],
               log |-> <<WaitpidTimeout(c.pid_)>>, ret |-> TRUE,
               sigs |-> NoSigs, event |-> ev]
         ELSE Out(c, <<WaitpidTimeout(c.pid_)>>, FALSE)
    ELSE Out(c, <<>>, FALSE)

\* wait_debug_event that reports the thread id as the event's process id
wait_event_pid_is_tid(c, timeout, tid, status) ==
    IF attached(c)
    THEN IF ~timeout /\ tid > 0
         THEN LET ev == DebugEvent(status, tid, tid) IN
              [c |-> [c EXCEPT !.active_thread_ = ev.tid,
                               !.threads_ = StoreStatus(c.threads_, tid, status),
                               !.running = c.running \ {tid}],
               log |-> <<WaitpidTimeout(c.pid_)>>, ret |-> TRUE,
               sigs |-> NoSigs, event |-> ev]
         ELSE Out(c, <<WaitpidTimeout(c.pid_)>>, FALSE)
    ELSE Out(c, <<>>, FALSE)

wait_status_on_pid(c, timeout, tid, status) ==
    IF attached(c)
    THEN IF ~timeout /\ tid > 0
         THEN LET ev == DebugEvent(status, c.pid_, tid) IN
              [c |-> [c EXCEPT !.active_thread_ = ev.tid,
                               !.threads_ = StoreStatus(c.threads_, c.pid_, status),
                               !.running = c.running \ {tid}],
               log |-> <<WaitpidTimeout(c.pid_)>>, ret |-> TRUE,
               sigs |-> NoSigs, event |-> ev]
         ELSE Out(c, <<WaitpidTimeout(c.pid_)>>, FALSE)
    ELSE Out(c, <<>>, FALSE)

\* wait_debug_event that does not look at the timeout flag
wait_ignore_timeout(c, timeout, tid, status) ==
    IF attached(c)
    THEN IF tid > 0
         THEN LET ev == DebugEvent(status, c.pid_, tid) IN
              [c |-> [c EXCEPT !.active_thread_ = ev.tid,
                               !.threads_ = StoreStatus(c.threads_, tid, status),
                               !.running = c.running \ {tid}],
               log |-> <<WaitpidTimeout(c.pid_)>>, ret |-> TRUE,
               sigs |-> NoSigs, event |-> ev]
         ELSE Out(c, <<WaitpidTimeout(c.pid_)>>, FALSE)
    ELSE Out(c, <<>>, FALSE)

wait_debug_event(c, timeout, tid, status) ==
    IF attached(c)
    THEN IF ~timeout /\ tid > 0
         THEN LET ev == DebugEvent(status, c.pid_, tid) IN
              [c |-> [c EXCEPT !.active_thread_ = ev.tid,
                               !.threads_ = StoreStatus(c.threads_, tid, status),
                               !.running = c.running \ {tid}],
               log |-> <<WaitpidTimeout(c.pid_)>>, ret |-> TRUE,
               sigs |-> NoSigs, event |-> ev]
         ELSE Out(c, <<WaitpidTimeout(c.pid_)>>, FALSE)
    ELSE Out(c, <<>>, FALSE)

\* v, errno: what ptrace returned and left in errno
read_data(c, address, v, errno) ==
    Out(c, <<Ptrace("PT_READ_D", c.pid_, address, 0)>>, [v |-> v, ok |-> SET_OK(v, errno)])

write_data(c, address, value, r) ==
    Out(c, <<Ptrace("PT_WRITE_D", c.pid_, address, value)>>, r # -1)

\* pause that signals the active thread only
pause_active_only(c) ==
    IF attached(c)
    THEN [Out(c, <<>>, TRUE) EXCEPT !.sigs = [t \in Tids |-> IF t = c.active_thread_ THEN 1 ELSE 0]]
    ELSE Out(c, <<>>, TRUE)

pause(c) ==
    IF attached(c)
    THEN [Out(c, <<>>, TRUE) EXCEPT !.sigs = [t \in Tids |-> IF t \in DOMAIN c.threads_ THEN 1 ELSE 0]]
    ELSE Out(c, <<>>, TRUE)

\* resume/step that take the signal from the principal thread's status
advance_principal(c, req, status, r) ==
    IF attached(c) /\ status # "DEBUG_STOP"
    THEN LET tid == c.active_thread_
             m == IF status = "DEBUG_EXCEPTION_NOT_HANDLED" THEN Subscript(c.threads_, c.pid_) ELSE c.threads_
             code == IF status = "DEBUG_EXCEPTION_NOT_HANDLED" THEN resume_code(m[c.pid_].status) ELSE 0
         IN  Out([c EXCEPT !.threads_ = m,
                           !.running = IF r = 0 THEN c.running \cup {tid} ELSE c.running],
                 <<Ptrace(req, tid, 1, code)>>, TRUE)
    ELSE Out(c, <<>>, TRUE)

\* resume/step without the DEBUG_STOP test
advance_no_stop_check(c, req, status, r) ==
    IF attached(c)
    THEN LET tid == c.active_thread_
             m == IF status = "DEBUG_EXCEPTION_NOT_HANDLED" THEN Subscript(c.threads_, tid) ELSE c.threads_
             code == IF status = "DEBUG_EXCEPTION_NOT_HANDLED" THEN resume_code(m[tid].status) ELSE 0
         IN  Out([c EXCEPT !.threads_ = m,
                           !.running = IF r = 0 THEN c.running \cup {tid} ELSE c.running],
                 <<Ptrace(req, tid, 1, code)>>, TRUE)
    ELSE Out(c, <<>>, TRUE)

\* The part resume and step share: req is PT_CONTINUE or PT_STEP, r what
\* ptrace returned (the code ignores it; the OS lets the thread run on 0)
advance(c, req, status, r) ==
    IF attached(c) /\ status # "DEBUG_STOP"
    THEN LET tid == c.active_thread_
             m == IF status = "DEBUG_EXCEPTION_NOT_HANDLED" THEN Subscript(c.threads_, tid) ELSE c.threads_
             code == IF status = "DEBUG_EXCEPTION_NOT_HANDLED" THEN resume_code(m[tid].status) ELSE 0
         IN  Out([c EXCEPT !.threads_ = m,
                           !.running = IF r = 0 THEN c.running \cup {tid} ELSE c.running],
                 <<Ptrace(req, tid, 1, code)>>, TRUE)
    ELSE Out(c, <<>>, TRUE)

resume(c, status, r) == advance(c, "PT_CONTINUE", status, r)

\* step that issues PT_CONTINUE
step_continue(c, status, r) == advance(c, "PT_CONTINUE", status, r)

step(c, status, r) == advance(c, "PT_STEP", status, r)

\* r1, r2: what the two ptrace calls returned
get_state(c, r1, r2) ==
    IF attached(c)
    THEN Out(c, <<Ptrace("PT_GETREGS", c.active_thread_, 0, 0), Ptrace("PT_GETFPREGS", c.active_thread_, 0, 0)>>,
             [cleared |-> FALSE, regs |-> r1 # -1, fpregs |-> r2 # -1])
    ELSE Out(c, <<>>, [cleared |-> TRUE, regs |-> FALSE, fpregs |-> FALSE])

set_state(c) ==
    IF attached(c)
    THEN Out(c, <<Ptrace("PT_SETREGS", c.active_thread_, 0, 0)>>, TRUE)
    ELSE Out(c, <<>>, TRUE)

set_active_thread(c, tid) == Out([c EXCEPT !.active_thread_ = tid], <<>>, TRUE)

(***************************************************************************)
(* The register bank: what set_state and get_state copy.  bank is the      *)
(* active thread's registers in the debuggee, s and snap are PlatformState *)
(* objects of the caller                                                   *)
(***************************************************************************)
RegValues == 0..MaxReg

PlatformState == [regs_ : RegValues, fpregs_ : RegValues, gs_base : RegValues, fs_base : RegValues]

Banks == [regs_ : RegValues, fpregs_ : RegValues]

\* State::clear()
ClearedState == [regs_ |-> 0, fpregs_ |-> 0, gs_base |-> 0, fs_base |-> 0]

\* The debuggee's bank after set_state(s); r: what PT_SETREGS returned
set_state_bank(c, bank, s, r) ==
    IF attached(c) /\ r # -1
    THEN [bank EXCEPT !.regs_ = s.regs_]
    ELSE bank

\* The caller's State after get_state; r1, r2: what PT_GETREGS and
\* PT_GETFPREGS returned (a failed request leaves the buffer as it was)
get_state_snap(c, bank, snap, r1, r2) ==
    IF attached(c)
    THEN LET s1 == IF r1 # -1
                   THEN [snap EXCEPT !.regs_ = bank.regs_, !.gs_base = 0, !.fs_base = 0]
                   ELSE snap
         IN  IF r2 # -1 THEN [s1 EXCEPT !.fpregs_ = bank.fpregs_] ELSE s1
    ELSE ClearedState

\* The part of a State the round trip compares
Compared(s) == [regs_ |-> s.regs_, fpregs_ |-> s.fpregs_]

RegsIdle == [bank |-> [regs_ |-> 0, fpregs_ |-> 0], snap |-> ClearedState,
             given |-> Compared(ClearedState), phase |-> "idle", ok |-> FALSE]

(***************************************************************************)
(* The Analyzer's function map: entry address -> the function's end and    *)
(* type; the map is keyed by entry and walked in entry order               *)
(***************************************************************************)
Addresses == 0..MaxAddress

FunctionTypes == {"Standard", "Thunk"}

Function == [end : 0..(MaxAddress + 1), type : FunctionTypes]

\* The maps a walk can leave: every function has entry <= end
FunctionMaps ==
    {m \in UNION {[S -> Function] : S \in SUBSET Addresses} :
        \A e \in DOMAIN m : e <= m[e].end}

MinOf(S) == CHOOSE x \in S : \A y \in S : x <= y

\* F2 (at entry e2 of m) lies entirely within a function ending at end
ContainedThunk(m, e2, end) == m[e2].type = "Thunk" /\ m[e2].end <= end

\* The end of the function at `entry` after it was compared with its next
\* neighbour in entry order only
RECURSIVE AdjacentEnd(_, _, _, _)
AdjacentEnd(m, entry, end, later) ==
    IF later = {} THEN end
    ELSE LET e2 == MinOf(later) IN
         IF end > e2 /\ ~ContainedThunk(m, e2, end) THEN e2 ELSE end

\* fix_overlaps that compares each function with its successor only
fix_overlaps_adjacent(function_map) ==
    [e \in DOMAIN function_map |->
        [function_map[e] EXCEPT !.end =
            AdjacentEnd(function_map, e, function_map[e].end,
                        {x \in DOMAIN function_map : x > e})]]

\* The end of the function at `entry` after it was compared with the
\* functions at the entries `later`, lowest entry first
RECURSIVE TruncatedEnd(_, _, _, _)
TruncatedEnd(m, entry, end, later) ==
    IF later = {} THEN end
    ELSE LET e2 == MinOf(later) IN
         TruncatedEnd(m, entry,
                      IF end > e2 /\ ~ContainedThunk(m, e2, end) THEN e2 ELSE end,
                      later \ {e2})

\* Functions are taken in entry order, so the later functions still have
\* the ends the walk gave them when an earlier one is compared with them
fix_overlaps(function_map) ==
    [e \in DOMAIN function_map |->
        [function_map[e] EXCEPT !.end =
            TruncatedEnd(function_map, e, function_map[e].end,
                         {x \in DOMAIN function_map : x > e})]]

OvIdle == [in |-> EmptyMap, out |-> EmptyMap, done |-> FALSE]

(***************************************************************************)
(* The Analyzer's cache analysis_info_: region.start -> RegionInfo         *)
(* {analysis, md5, fuzzy}.  mem is the byte image of each region, running  *)
(* tells whether the debuggee runs (AttachedRunning) while a pass is made  *)
(***************************************************************************)
Regions == {16, 32}

Contents == {0, 1}

\* The fingerprint of a region's byte image
md5(bytes) == (7 * bytes + 3) % 16

\* What the seeders and the walker make of a byte image
walk_all_functions(bytes) ==
    [e \in {0, 1} |-> [end |-> 2 + bytes,
                       type |-> IF e = 1 /\ bytes = 1 THEN "Thunk" ELSE "Standard"]]

\* One full pass over a byte image
do_analysis(bytes) == fix_overlaps(walk_all_functions(bytes))

Put(info, key, value) ==
    [k \in DOMAIN info \cup {key} |-> IF k = key THEN value ELSE info[k]]

\* analyze that takes any entry with the current md5, fuzzy or not
analyze_reuse_fuzzy(a, region, seen) ==
    LET current == md5(a.mem[region])
        hit == region \in DOMAIN a.info /\ a.info[region].md5 = current
    IN  IF hit
        THEN [info |-> a.info, result |-> a.info[region].analysis,
              md5s |-> 1, passes |-> 0, fuzzy |-> FALSE]
        ELSE LET res == do_analysis(IF a.running THEN seen ELSE a.mem[region]) IN
             [info |-> Put(a.info, region,
                           [analysis |-> res, md5 |-> current, fuzzy |-> a.running]),
              result |-> res, md5s |-> 1, passes |-> 1, fuzzy |-> a.running]

\* seen: the bytes a pass reads while the debuggee runs
analyze(a, region, seen) ==
    LET current == md5(a.mem[region])
        hit == /\ region \in DOMAIN a.info
               /\ a.info[region].md5 = current
               /\ a.info[region].fuzzy = FALSE
    IN  IF hit
        THEN [info |-> a.info, result |-> a.info[region].analysis,
              md5s |-> 1, passes |-> 0, fuzzy |-> FALSE]
        ELSE LET res == do_analysis(IF a.running THEN seen ELSE a.mem[region]) IN
             [info |-> Put(a.info, region,
                           [analysis |-> res, md5 |-> current, fuzzy |-> a.running]),
              result |-> res, md5s |-> 1, passes |-> 1, fuzzy |-> a.running]

\* invalidate_analysis(region)
invalidate_analysis(info, region) == [k \in DOMAIN info \ {region} |-> info[k]]

NoCall == [kind |-> "none", region |-> 0, bytes |-> 0, result |-> EmptyMap,
           md5s |-> 0, passes |-> 0, fuzzy |-> FALSE, tick |-> FALSE]

CaIdle == [mem |-> [r \in Regions |-> 0], info |-> EmptyMap, running |-> FALSE,
           last |-> NoCall]

(***************************************************************************)
(* The operating system's answers                                          *)
(***************************************************************************)
\* ptrace on a target that is no traced process fails; pid 0 never is one
PtraceResults(target) == IF target = 0 THEN {-1} ELSE {0, -1}

\* PT_READ_D: the word read with errno 0 (the word may be -1), or -1 with errno set
ReadResults(target) ==
    IF target = 0 THEN {<<-1, 1>>}
    ELSE {<<w, 0>> : w \in Words \cup {-1}} \cup {<<-1, 1>>}

(***************************************************************************)
(* The state machine                                                       *)
(***************************************************************************)
CommitCtl(name, a, os, r) ==
    /\ pid_' = r.c.pid_
    /\ active_thread_' = r.c.active_thread_
    /\ threads_' = r.c.threads_
    /\ running' = r.c.running
    /\ op' = name
    /\ arg' = a
    /\ ret' = r.ret
    /\ event' = r.event
    /\ log' = r.log
    /\ sigs' = r.sigs
    /\ osres' = os

\* An operation of the controller alone
Commit(name, a, os, r) == CommitCtl(name, a, os, r) /\ UNCHANGED <<rg, ov, ca>>

\* The constructor leaves active_thread_ uninitialised
Init ==
    /\ pid_ = 0
    /\ active_thread_ \in {0} \cup Tids
    /\ threads_ = EmptyMap
    /\ running = {}
    /\ op = "new"
    /\ arg = 0
    /\ ret = TRUE
    /\ event = NoEvent
    /\ log = <<>>
    /\ sigs = NoSigs
    /\ osres = <<>>
    /\ rg = RegsIdle
    /\ ov = OvIdle
    /\ ca = CaIdle

Open ==
    \E fk \in Pids \cup {-1}, w \in {0, -1}, status \in Statuses :
        /\ fk = -1 => w = -1 /\ status = 0
        /\ w = -1 => status = 0
        /\ Commit("open", 0, <<fk, w, status>>, open(Ctl, fk, w, status))

Attach ==
    \E pid \in Pids, r \in {0, -1} :
        Commit("attach", pid, <<r>>, attach(Ctl, pid, r))

Detach == Commit("detach", 0, <<>>, detach(Ctl))

Kill == Commit("kill", 0, <<>>, kill(Ctl))

WaitDebugEvent ==
    \E timeout \in BOOLEAN, tid \in {-1, 0} \cup Tids, status \in Statuses :
        /\ (timeout \/ tid <= 0) => status = 0
        /\ ~attached(Ctl) => (timeout /\ tid = -1)
        /\ Commit("wait_debug_event", 0, <<timeout, tid, status>>,
                  wait_debug_event(Ctl, timeout, tid, status))

ReadData ==
    \E address \in Addrs, x \in ReadResults(pid_) :
        Commit("read_data", address, x, read_data(Ctl, address, x[1], x[2]))

WriteData ==
    \E address \in Addrs, value \in Words, r \in PtraceResults(pid_) :
        Commit("write_data", address, <<r>>, write_data(Ctl, address, value, r))

Pause == Commit("pause", 0, <<>>, pause(Ctl))

Resume ==
    \E status \in Dispositions, r \in {0, -1} :
        /\ (~attached(Ctl) \/ status = "DEBUG_STOP") => r = -1
        /\ Commit("resume", status, <<r>>, resume(Ctl, status, r))

Step ==
    \E status \in Dispositions, r \in {0, -1} :
        /\ (~attached(Ctl) \/ status = "DEBUG_STOP") => r = -1
        /\ Commit("step", status, <<r>>, step(Ctl, status, r))

GetState ==
    \E r1 \in {0, -1}, r2 \in {0, -1} :
        /\ ~attached(Ctl) => (r1 = -1 /\ r2 = -1)
        /\ Commit("get_state", 0, <<r1, r2>>, get_state(Ctl, r1, r2))

SetState == Commit("set_state", 0, <<>>, set_state(Ctl))

\* Q_ASSERT(threads_.contains(tid)): callers pass registered threads only
SetActiveThread ==
    \E tid \in DOMAIN threads_ :
        Commit("set_active_thread", tid, <<>>, set_active_thread(Ctl, tid))

Next ==
    \/ Open
    \/ Attach
    \/ Detach
    \/ Kill
    \/ WaitDebugEvent
    \/ ReadData
    \/ WriteData
    \/ Pause
    \/ Resume
    \/ Step
    \/ GetState
    \/ SetState
    \/ SetActiveThread

Spec == Init /\ [][Next]_vars

(***************************************************************************)
(* The controller's state in the words of the design: Detached, or         *)
(* attached with the active thread running or stopped                      *)
(***************************************************************************)
State ==
    IF pid_ = 0 THEN "Detached"
    ELSE IF active_thread_ \in running THEN "AttachedRunning"
    ELSE "AttachedStopped"

core == <<pid_, active_thread_, threads_, running>>

\* What a DebugEvent reports for the raw status it was built with: the
\* rules are tried in this order
classify(status) ==
    IF WIFEXITED(status)
    THEN [reason |-> "Terminated", normal |-> TRUE, code |-> WEXITSTATUS(status)]
    ELSE IF WIFSIGNALED(status)
    THEN [reason |-> "Terminated", normal |-> FALSE, code |-> WTERMSIG(status)]
    ELSE IF WIFSTOPPED(status) /\ WSTOPSIG(status) = SIGTRAP
    THEN [reason |-> "Trap", normal |-> TRUE, code |-> WSTOPSIG(status)]
    ELSE IF WIFSTOPPED(status)
    THEN [reason |-> "Stopped", normal |-> TRUE, code |-> WSTOPSIG(status)]
    ELSE [reason |-> "Unknown", normal |-> TRUE, code |-> 0]

IsTrapStop(status) == WIFSTOPPED(status) /\ WSTOPSIG(status) = SIGTRAP

PtraceCalls(l) == {i \in 1..Len(l) : l[i][1] = "ptrace"}

(***************************************************************************)
(* Claims                                                                  *)
(***************************************************************************)

\* C1: whenever open returns success, the first event reaped from the child
\* was a stop with SIGTRAP, and on return the controller is AttachedStopped
\* on the spawned pid, the active thread is that pid, and the registry holds
\* exactly one entry, for that pid, carrying the raw status of that stop --
\* whatever the controller was attached to before.
C1_OpenSuccess ==
    (op = "open" /\ ret = TRUE) =>
        /\ osres[1] \in Pids /\ osres[2] # -1
        /\ IsTrapStop(osres[3])
        /\ pid_ = osres[1]
        /\ State = "AttachedStopped"
        /\ active_thread_ = pid_
        /\ DOMAIN threads_ = {pid_}
        /\ threads_[pid_].status = osres[3]

\* open succeeded on a controller that was attached to another process
C1_Witness ==
    /\ op = "open" /\ ret = TRUE
    /\ Len(log) = 4 /\ log[2][2] = "PT_DETACH" /\ log[2][3] # pid_

\* C2: open fails exactly when fork fails, the blocking wait fails, or the
\* first event is not a stop with SIGTRAP; it then returns false with the
\* controller Detached: pid 0 and an empty registry, from every state.
C2_OpenFailure ==
    op = "open" =>
        /\ (ret = FALSE) <=> (osres[1] = -1 \/ osres[2] = -1 \/ ~IsTrapStop(osres[3]))
        /\ (ret = FALSE) => (pid_ = 0 /\ State = "Detached" /\ threads_ = EmptyMap)

\* open failed on the first event, on a controller that was attached
C2_Witness ==
    /\ op = "open" /\ ret = FALSE
    /\ osres[1] \in Pids /\ osres[2] = 0 /\ ~IsTrapStop(osres[3])
    /\ Len(log) = 4 /\ log[2][2] = "PT_DETACH"

\* C3: detach and kill leave the controller Detached (pid 0, registry empty)
\* from every state, the debuggee stopped or running; called in Detached
\* they change nothing and make no ptrace request.
C3_DetachKill ==
    [][(op' \in {"detach", "kill"}) =>
          /\ pid_' = 0 /\ threads_' = EmptyMap /\ State' = "Detached"
          /\ pid_ # 0 => \E i \in PtraceCalls(log') : log'[i][3] = pid_
          /\ pid_ = 0 => (PtraceCalls(log') = {} /\ UNCHANGED core)]_vars

\* kill ran on an attached controller
C3_Witness == op = "kill" /\ Len(log) = 3 /\ log[2][2] = "PT_KILL" /\ pid_ = 0

\* C4: when wait_event delivers an event for thread tid, the registry holds
\* tid (inserted if unknown, every other entry untouched), tid's entry
\* stores the raw status of this event, and tid is the active thread.
C4_WaitRegisters ==
    [][(op' = "wait_debug_event" /\ ret' = TRUE) =>
          LET tid == osres'[2]
              status == osres'[3]
          IN  /\ osres'[1] = FALSE /\ tid \in Tids
              /\ DOMAIN threads_' = DOMAIN threads_ \cup {tid}
              /\ threads_'[tid].status = status
              /\ \A t \in DOMAIN threads_ \ {tid} : threads_'[t] = threads_[t]
              /\ active_thread_' = tid
              /\ event' = [status |-> status, pid |-> pid_, tid |-> tid]]_vars

\* an event of a thread other than the principal one was delivered
C4_Witness ==
    /\ op = "wait_debug_event" /\ ret = TRUE
    /\ event.tid # pid_ /\ event.tid = active_thread_
    /\ Cardinality(DOMAIN threads_) = 2

\* C5: on an attached controller resume and step with Continue pass signal
\* 0, and with PassSignal the signal of the status stored for the active
\* thread: WTERMSIG if WIFSIGNALED, else WSTOPSIG if WIFSTOPPED, else 0.
C5_ResumeSignal ==
    [][(op' \in {"resume", "step"} /\ pid_ # 0 /\ arg' # "DEBUG_STOP") =>
          LET status == threads_[active_thread_].status
              code == IF arg' = "DEBUG_CONTINUE" THEN 0
                      ELSE IF WIFSIGNALED(status) THEN WTERMSIG(status)
                      ELSE IF WIFSTOPPED(status) THEN WSTOPSIG(status)
                      ELSE 0
          IN  /\ Len(log') = 1
              /\ log'[1][3] = active_thread_
              /\ log'[1][5] = code]_vars

\* PassSignal on an active thread other than the principal one, whose stored
\* status carries another signal than the principal thread's
C5_Witness ==
    /\ op = "resume" /\ arg = "DEBUG_EXCEPTION_NOT_HANDLED" /\ pid_ # 0
    /\ active_thread_ # pid_
    /\ {active_thread_, pid_} \subseteq DOMAIN threads_
    /\ log[1][5] = SIGSTOP
    /\ resume_code(threads_[pid_].status) = SIGTRAP

\* C6: on an attached controller a step that is not Stop makes exactly one
\* PT_STEP request and a resume that is not Stop exactly one PT_CONTINUE
\* request, addressed to the active thread; no other thread gets a request
\* or a signal, and every other thread keeps its run state.
C6_OneRequest ==
    [][(op' \in {"resume", "step"} /\ pid_ # 0 /\ arg' # "DEBUG_STOP") =>
          /\ Len(log') = 1
          /\ log'[1][1] = "ptrace"
          /\ log'[1][2] = (IF op' = "step" THEN "PT_STEP" ELSE "PT_CONTINUE")
          /\ log'[1][3] = active_thread_
          /\ sigs' = NoSigs
          /\ running' \ {active_thread_} = running \ {active_thread_}
          /\ UNCHANGED <<pid_, active_thread_>>]_vars

\* a step of one thread while another registered thread is running
C6_Witness ==
    /\ op = "step" /\ arg = "DEBUG_CONTINUE" /\ pid_ # 0
    /\ active_thread_ \in running
    /\ \E t \in DOMAIN threads_ : t # active_thread_ /\ t \notin running

\* C7: resume(Stop) and step(Stop) do nothing in any state: no ptrace
\* request, the controller's state (AttachedStopped when it was) stays, and
\* pid, active thread and registry are unchanged.
C7_StopNoOp ==
    [][(op' \in {"resume", "step"} /\ arg' = "DEBUG_STOP") =>
          /\ log' = <<>>
          /\ sigs' = NoSigs
          /\ State' = State
          /\ UNCHANGED core]_vars

\* resume(Stop) ran on a stopped debuggee
C7_Witness ==
    /\ op = "resume" /\ arg = "DEBUG_STOP"
    /\ State = "AttachedStopped" /\ Cardinality(DOMAIN threads_) = 2

\* C8: when wait_event returns without an event (timeout, or the wait
\* failed with tid <= 0) it returns false and leaves pid, active thread,
\* registry and the caller's event object as they were.
C8_WaitNoEvent ==
    [][(op' = "wait_debug_event") =>
          /\ (ret' = FALSE) <=> (pid_ = 0 \/ osres'[1] = TRUE \/ osres'[2] <= 0)
          /\ (ret' = FALSE) => (event' = NoEvent /\ sigs' = NoSigs /\ UNCHANGED core)]_vars

\* a wait on an attached controller timed out
C8_Witness ==
    /\ op = "wait_debug_event" /\ ret = FALSE
    /\ pid_ # 0 /\ osres[1] = TRUE /\ Cardinality(DOMAIN threads_) = 2

\* C9: pause on an attached controller sends exactly one SIGSTOP to each
\* registered thread and to no other id, waits for nothing and changes
\* neither registry nor active thread; when not attached it sends nothing.
C9_Pause ==
    [][(op' = "pause") =>
          /\ sigs' = [t \in Tids |-> IF pid_ # 0 /\ t \in DOMAIN threads_ THEN 1 ELSE 0]
          /\ log' = <<>>
          /\ UNCHANGED core]_vars

\* pause ran with two threads registered
C9_Witness ==
    /\ op = "pause" /\ pid_ # 0
    /\ Cardinality(DOMAIN threads_) = 2
    /\ \A t \in DOMAIN threads_ : sigs[t] = 1

\* C10: in Detached wait_event, resume, step, pause, read_word, write_word
\* and set_state make no ptrace request and send no signal, report failure
\* where they have a result, and leave the controller Detached.
C10_DetachedIssuesNothing ==
    (pid_ = 0 /\ op \in {"wait_debug_event", "resume", "step", "pause",
                         "read_data", "write_data", "set_state"}) =>
        /\ PtraceCalls(log) = {}
        /\ sigs = NoSigs
        /\ op = "wait_debug_event" => ret = FALSE
        /\ op = "read_data" => ret.ok = FALSE
        /\ op = "write_data" => ret = FALSE

\* C11: in AttachedRunning -- after a resume or step with Continue or
\* PassSignal, until wait_event next returns an event -- resume, step,
\* read_word, write_word, get_state and set_state make no ptrace request.
C11_RunningIssuesNothing ==
    [][(/\ op \in {"resume", "step"} /\ arg # "DEBUG_STOP" /\ pid_ # 0
        /\ State = "AttachedRunning"
        /\ op' \in {"resume", "step", "read_data", "write_data", "get_state", "set_state"})
       => PtraceCalls(log') = {}]_vars

C13_DetachKillOrder ==
    [][(op' \in {"detach", "kill"} /\ pid_ # 0) =>
          /\ log' = IF op' = "detach"
                    THEN <<ClearBreakpoints, Ptrace("PT_DETACH", pid_, 0, 0)>>
                    ELSE <<ClearBreakpoints, Ptrace("PT_KILL", pid_, 0, 0), Waitpid(pid_)>>
          /\ pid_' = 0]_vars

\* detach ran on an attached controller
C13_Witness ==
    /\ op = "detach" /\ Len(log) = 2
    /\ log[1][1] = "clear_breakpoints" /\ log[2][2] = "PT_DETACH" /\ log[2][3] \in Pids

\* C14: after wait_event delivers a Terminated event (WIFEXITED or
\* WIFSIGNALED status) for thread tid, tid is no longer in the registry.
C14_RemovedOnExit ==
    (op = "wait_debug_event" /\ ret = TRUE
        /\ (WIFEXITED(event.status) \/ WIFSIGNALED(event.status)))
    => event.tid \notin DOMAIN threads_

\* C19: in every reachable state, if the controller is Detached the registry
\* is empty, and if it is attached the registry holds the principal thread
\* (tid = pid) and the active thread.
C19_RegistryConsistent ==
    /\ pid_ = 0 => threads_ = EmptyMap
    /\ pid_ # 0 => (pid_ \in DOMAIN threads_ /\ active_thread_ \in DOMAIN threads_)

\* attached, two threads registered, the active one not the principal one
C19_Witness ==
    /\ pid_ # 0 /\ Cardinality(DOMAIN threads_) = 2 /\ active_thread_ # pid_
    /\ op = "set_active_thread"

\* C20: when open fails because the child's first event is not a stop with
\* SIGTRAP, a PT_DETACH request to the child's pid is issued after the fork,
\* before open returns false.
C20_FailedOpenReleasesChild ==
    (op = "open" /\ osres[1] \in Pids /\ osres[2] # -1 /\ ~IsTrapStop(osres[3])) =>
        \E i, j \in 1..Len(log) :
            /\ log[i][1] = "fork" /\ i < j
            /\ log[j] = Ptrace("PT_DETACH", osres[1], 0, 0)

C21_WaitKeepsPid ==
    [][/\ op' = "wait_debug_event" =>
             /\ pid_' = pid_
             /\ attached(Ctl)' = attached(Ctl)
       /\ (pid_' # pid_ \/ attached(Ctl)' # attached(Ctl)) =>
             op' \in {"detach", "kill", "attach", "open"}]_vars

\* wait_event delivered the termination of the principal thread and the
\* controller is still attached to the process
C21_Witness ==
    /\ op = "wait_debug_event" /\ ret = TRUE
    /\ event.tid = pid_ /\ attached(Ctl)
    /\ classify(event.status).reason = "Terminated"

(***************************************************************************)
(* The register round trip: a controller that open left attached and       *)
(* stopped; set_state and get_state run while the debuggee is stopped, a   *)
(* step and the event that ends it let the debuggee change its registers   *)
(***************************************************************************)
FreshCtl == [pid_ |-> 0, active_thread_ |-> 0, threads_ |-> EmptyMap, running |-> {}]

InitRegs ==
    LET o == open(FreshCtl, 1, 0, StatusStopped(SIGTRAP)) IN
    /\ pid_ = o.c.pid_
    /\ active_thread_ = o.c.active_thread_
    /\ threads_ = o.c.threads_
    /\ running = o.c.running
    /\ op = "open" /\ arg = 0 /\ ret = o.ret /\ event = o.event
    /\ log = o.log /\ sigs = o.sigs /\ osres = <<1, 0, StatusStopped(SIGTRAP)>>
    /\ \E b \in Banks, s \in PlatformState :
          rg = [bank |-> b, snap |-> s, given |-> Compared(s), phase |-> "idle", ok |-> FALSE]
    /\ ov = OvIdle
    /\ ca = CaIdle

RegsSetState ==
    \E s \in PlatformState, r \in {0, -1} :
        /\ State = "AttachedStopped"
        /\ CommitCtl("set_state", 0, <<r>>, set_state(Ctl))
        /\ rg' = [rg EXCEPT !.bank = set_state_bank(Ctl, rg.bank, s, r),
                            !.given = Compared(s), !.phase = "set", !.ok = (r # -1)]
        /\ UNCHANGED <<ov, ca>>

RegsGetState ==
    \E r1 \in {0, -1}, r2 \in {0, -1} :
        /\ State = "AttachedStopped"
        /\ CommitCtl("get_state", 0, <<r1, r2>>, get_state(Ctl, r1, r2))
        /\ rg' = [rg EXCEPT !.snap = get_state_snap(Ctl, rg.bank, rg.snap, r1, r2),
                            !.phase = IF rg.phase = "set" THEN "got" ELSE "idle",
                            !.ok = (rg.ok /\ r1 # -1 /\ r2 # -1)]
        /\ UNCHANGED <<ov, ca>>

RegsStep ==
    /\ State = "AttachedStopped"
    /\ CommitCtl("step", "DEBUG_CONTINUE", <<0>>, step(Ctl, "DEBUG_CONTINUE", 0))
    /\ rg' = [rg EXCEPT !.phase = "idle", !.ok = FALSE]
    /\ UNCHANGED <<ov, ca>>

\* The step ends with a SIGTRAP stop; the debuggee's registers are what it left
RegsWait ==
    \E b \in Banks :
        /\ State = "AttachedRunning"
        /\ CommitCtl("wait_debug_event", 0, <<FALSE, active_thread_, StatusStopped(SIGTRAP)>>,
                     wait_debug_event(Ctl, FALSE, active_thread_, StatusStopped(SIGTRAP)))
        /\ rg' = [rg EXCEPT !.bank = b, !.phase = "idle", !.ok = FALSE]
        /\ UNCHANGED <<ov, ca>>

NextRegs ==
    \/ RegsSetState
    \/ RegsGetState
    \/ RegsStep
    \/ RegsWait

SpecRegs == InitRegs /\ [][NextRegs]_vars

\* C15: on an attached, stopped controller set_state(s) directly followed by
\* get_state(), every ptrace request succeeding, returns s in the general
\* purpose registers and in the floating-point state (the segment bases
\* are left out of the comparison).
C15_RegisterRoundTrip ==
    (rg.phase = "got" /\ rg.ok) =>
        Compared(rg.snap) = rg.given

(***************************************************************************)
(* Overlap resolution: any function map a walk can leave, then             *)
(* fix_overlaps                                                            *)
(***************************************************************************)
InitOverlap ==
    /\ pid_ = 0 /\ active_thread_ = 0 /\ threads_ = EmptyMap /\ running = {}
    /\ op = "new" /\ arg = 0 /\ ret = TRUE /\ event = NoEvent
    /\ log = <<>> /\ sigs = NoSigs /\ osres = <<>>
    /\ rg = RegsIdle
    /\ \E m \in FunctionMaps : ov = [in |-> m, out |-> m, done |-> FALSE]
    /\ ca = CaIdle

FixOverlaps ==
    /\ ~ov.done
    /\ ov' = [ov EXCEPT !.out = fix_overlaps(ov.in), !.done = TRUE]
    /\ UNCHANGED <<pid_, active_thread_, threads_, running, op, arg, ret, event,
                   log, sigs, osres, rg, ca>>

SpecOverlap == InitOverlap /\ [][FixOverlaps]_vars

\* C17: after fix_overlaps, for every two functions F1, F2 with
\* F1.entry < F2.entry, adjacent in entry order or not, F1.end <= F2.entry
\* or F2 is a Thunk entirely contained in F1; the entries are those of the
\* input, every function has entry <= end and its type, and an end differs
\* from the input's only by being the entry of a later function that the
\* input's end overlapped.
C17_OverlapsResolved ==
    ov.done =>
        /\ \A e1 \in DOMAIN ov.out : \A e2 \in DOMAIN ov.out :
              e1 < e2 => \/ ov.out[e1].end <= e2
                         \/ /\ ov.out[e2].type = "Thunk"
                            /\ ov.out[e2].end <= ov.out[e1].end
        /\ DOMAIN ov.out = DOMAIN ov.in
        /\ \A e \in DOMAIN ov.out :
              /\ e <= ov.out[e].end
              /\ ov.out[e].type = ov.in[e].type
              /\ \/ ov.out[e].end = ov.in[e].end
                 \/ /\ ov.out[e].end \in DOMAIN ov.in
                    /\ e < ov.out[e].end
                    /\ ov.out[e].end < ov.in[e].end

\* a function that keeps a contained thunk, its successor, and is truncated
\* to the entry of a function that is not its successor
C17_Witness ==
    /\ ov.done
    /\ \E e1 \in DOMAIN ov.out : \E t \in DOMAIN ov.out : \E e2 \in DOMAIN ov.out :
          /\ e1 < t /\ t < e2
          /\ ov.in[t].type = "Thunk" /\ ov.in[t].end <= e2
          /\ ov.in[e1].end > e2
          /\ ov.out[e1].end = e2

(***************************************************************************)
(* The analysis cache: analyze and invalidate_analysis on regions whose    *)
(* bytes the debuggee may change, while the debuggee runs or is stopped    *)
(***************************************************************************)
InitCache ==
    /\ pid_ = 0 /\ active_thread_ = 0 /\ threads_ = EmptyMap /\ running = {}
    /\ op = "new" /\ arg = 0 /\ ret = TRUE /\ event = NoEvent
    /\ log = <<>> /\ sigs = NoSigs /\ osres = <<>>
    /\ rg = RegsIdle
    /\ ov = OvIdle
    /\ \E m \in [Regions -> Contents] : ca = [CaIdle EXCEPT !.mem = m]

CacheStep(next) ==
    /\ ca' = next
    /\ UNCHANGED <<pid_, active_thread_, threads_, running, op, arg, ret, event,
                   log, sigs, osres, rg, ov>>

Analyze ==
    \E region \in Regions, seen \in Contents :
        LET r == analyze(ca, region, seen) IN
        /\ ~ca.running => seen = ca.mem[region]
        /\ CacheStep([ca EXCEPT !.info = r.info,
                                !.last = [kind |-> "analyze", region |-> region,
                                          bytes |-> ca.mem[region], result |-> r.result,
                                          md5s |-> r.md5s, passes |-> r.passes,
                                          fuzzy |-> r.fuzzy, tick |-> ~ca.last.tick]])

InvalidateAnalysis ==
    \E region \in Regions :
        /\ ca.last.kind \in {"none", "analyze", "invalidate"}
        /\ CacheStep([ca EXCEPT !.info = invalidate_analysis(ca.info, region),
                                !.last = [NoCall EXCEPT !.kind = "invalidate",
                                                        !.tick = ca.last.tick]])

InvalidateAnalysisAll ==
    /\ ca.last.kind \in {"none", "analyze", "invalidate"}
    /\ CacheStep([ca EXCEPT !.info = EmptyMap,
                            !.last = [NoCall EXCEPT !.kind = "invalidate",
                                                    !.tick = ca.last.tick]])

\* The debuggee changes the bytes of a region
MemoryChanges ==
    \E region \in Regions, bytes \in Contents :
        /\ bytes # ca.mem[region]
        /\ CacheStep([ca EXCEPT !.mem[region] = bytes])

\* The debuggee is resumed, or stops
RunStateChanges ==
    \E state \in BOOLEAN :
        /\ state # ca.running
        /\ CacheStep([ca EXCEPT !.running = state])

NextCache ==
    \/ Analyze
    \/ InvalidateAnalysis
    \/ InvalidateAnalysisAll
    \/ MemoryChanges
    \/ RunStateChanges

SpecCache == InitCache /\ [][NextCache]_vars

\* the step is a call of analyze
AnalyzeCalled == ca'.last.tick # ca.last.tick

\* the step is a call of analyze that directly follows a call of analyze on
\* the same region, the region's bytes being those of the first call
AnalyzedAgain ==
    /\ AnalyzeCalled
    /\ ca.last.kind = "analyze"
    /\ ca'.last.region = ca.last.region
    /\ ca'.last.bytes = ca.last.bytes

\* the cached entry of the region the step analyzes has the current md5
\* and is not fuzzy
Reusable ==
    LET region == ca'.last.region IN
    /\ region \in DOMAIN ca.info
    /\ ca.info[region].md5 = md5(ca.mem[region])
    /\ ~ca.info[region].fuzzy

\* C18 (as stated): analyze called twice on a region with identical bytes
\* computes md5 on both calls, runs the pass only once, and the second call
\* returns the cached map unchanged; an entry is reused only if its md5 is
\* the current one and it is not fuzzy.
C18_SecondCallReuses ==
    [][/\ AnalyzedAgain =>
             /\ ca.last.md5s = 1 /\ ca'.last.md5s = 1
             /\ ca'.last.passes = 0
             /\ ca'.last.result = ca.last.result
             /\ ca'.info = ca.info
       /\ (AnalyzeCalled /\ ca'.last.passes = 0) => Reusable]_vars

\* C18 (amended): every analyze computes md5 once; it skips the pass exactly
\* when the cached entry has the current md5 and is not fuzzy, and then
\* returns the cached map and leaves the cache unchanged; so a second call
\* on identical bytes reuses the first call's map when that map is not
\* fuzzy, and runs the pass again when it is.
C18_ReusedUnlessFuzzy ==
    [][AnalyzeCalled =>
          /\ ca'.last.md5s = 1
          /\ (ca'.last.passes = 0) <=> Reusable
          /\ (ca'.last.passes # 0) => ca'.last.passes = 1
          /\ Reusable => /\ ca'.last.result = ca.info[ca'.last.region].analysis
                         /\ ca'.info = ca.info
          /\ (AnalyzedAgain /\ ~ca.last.fuzzy) =>
                 /\ ca'.last.passes = 0
                 /\ ca'.last.result = ca.last.result
          /\ (AnalyzedAgain /\ ca.last.fuzzy) => ca'.last.passes = 1]_vars

\* a call that reused the entry of one region while the other region's
\* entry is fuzzy
C18_Witness ==
    /\ ca.last.kind = "analyze" /\ ca.last.passes = 0
    /\ ca.last.result = ca.info[ca.last.region].analysis
    /\ \E other \in DOMAIN ca.info : other # ca.last.region /\ ca.info[other].fuzzy

====
